---- MODULE Spec2Model ----
(***************************************************************************)
(* A model of NaiveBayesSource/Source_NaiveBayesyClassfier.py: the class   *)
(* NaiveBayesClassifier (train, prob_classify, classify,                   *)
(* most_informative_features), the module globals is_frequent,             *)
(* spam_frequent and frequent_probdist, and normal_probability, which      *)
(* writes frequent_probdist.                                               *)
(*                                                                         *)
(* Numbers.  The code works with floats and base-2 logarithms.  Here a     *)
(* probability is an exact fraction <<n, d>> in lowest terms, and a        *)
(* log-probability log2(p) is carried as the fraction p itself, so that    *)
(* "logprob[label] += log2(p)" is a multiplication by p and -INF is the    *)
(* fraction 0.  Rounding of floats is outside the model.                   *)
(***************************************************************************)
EXTENDS Integers, Sequences, FiniteSets, TLC

VARIABLES train_set, label_freqdist, feature_freqdist, feature_values, fnames,
          classifier, is_frequent, spam_frequent, frequent_probdist, call

vars == <<train_set, label_freqdist, feature_freqdist, feature_values, fnames,
          classifier, is_frequent, spam_frequent, frequent_probdist, call>>

(***************************************************************************)
(* Bounds of the model.                                                    *)
(***************************************************************************)
\* Longest training sequence of SpecTrain, and of Spec.
MaxExamples == 3

MaxScoreExamples == 2

\* Largest n given to most_informative_features.
MaxN == 2

\* Longest list passed to normal_probability, other than train_set itself.
MaxNormalExamples == 1

(***************************************************************************)
(* The universe of inputs.                                                 *)
(***************************************************************************)
Labels == {"ham", "spam"}

\* Python orders the str labels lexicographically: 'ham' < 'spam'.
LabelRank == [l \in Labels |-> IF l = "ham" THEN 1 ELSE 2]

None == "None"

FNames == {"w", "v"}

ValuesOf == [f \in FNames |-> IF f = "w" THEN {"buy", "hello"} ELSE {"click"}]

\* A featureset is a dict fname -> fval.
FeatureSets ==
  UNION {{fs \in [S -> UNION {ValuesOf[f] : f \in S}] :
             \A f \in S : fs[f] \in ValuesOf[f]} : S \in SUBSET FNames}

\* A labeled example is a tuple (featureset, label).
LabeledFeatureSets == FeatureSets \X Labels

TrainSets(max) == UNION {[1..n -> LabeledFeatureSets] : n \in 0..max}

(***************************************************************************)
(* Fractions.                                                              *)
(***************************************************************************)
RECURSIVE GCD(_, _)
GCD(a, b) == IF b = 0 THEN a ELSE GCD(b, a % b)

Frac(n, d) == LET g == GCD(n, d) IN <<n \div g, d \div g>>

FracMul(p, q) == Frac(p[1] * q[1], p[2] * q[2])

FracDiv(p, q) == Frac(p[1] * q[2], p[2] * q[1])

FracLess(p, q) == p[1] * q[2] < q[1] * p[2]

FracLeq(p, q) == p[1] * q[2] <= q[1] * p[2]

FracAdd(p, q) == Frac(p[1] * q[2] + q[1] * p[2], p[2] * q[2])

Zero == Frac(0, 1)

One == Frac(1, 1)

RECURSIVE FracSum(_, _)
FracSum(f, S) ==
  IF S = {} THEN Zero
  ELSE LET x == CHOOSE y \in S : TRUE
       IN FracAdd(f[x], FracSum(f, S \ {x}))

RECURSIVE FracProd(_, _)
FracProd(f, S) ==
  IF S = {} THEN One
  ELSE LET x == CHOOSE y \in S : TRUE
       IN FracMul(f[x], FracProd(f, S \ {x}))

RECURSIVE SeqProd(_)
SeqProd(s) == IF s = <<>> THEN One ELSE FracMul(Head(s), SeqProd(Tail(s)))

(***************************************************************************)
(* nltk.probability.FreqDist: a Counter, sample -> count.                  *)
(***************************************************************************)
FreqDist == [x \in {} |-> 0]

\* freqdist[sample]: a Counter answers 0 for a key it does not hold.
Count(fd, sample) == IF sample \in DOMAIN fd THEN fd[sample] ELSE 0

\* freqdist[sample] += k
Inc(fd, sample, k) ==
  [x \in DOMAIN fd \cup {sample} |-> Count(fd, x) + IF x = sample THEN k ELSE 0]

RECURSIVE SumCounts(_, _)
SumCounts(fd, S) ==
  IF S = {} THEN 0
  ELSE LET x == CHOOSE y \in S : TRUE IN fd[x] + SumCounts(fd, S \ {x})

\* FreqDist.N(): the total number of sample outcomes.
N(fd) == SumCounts(fd, DOMAIN fd)

\* FreqDist.B(): the number of distinct samples.
B(fd) == Cardinality(DOMAIN fd)

(***************************************************************************)
(* nltk.probability.ELEProbDist(freqdist, bins): LidstoneProbDist with     *)
(* gamma = 0.5.  The constructor raises ValueError for bins = 0 (or, with  *)
(* bins left out, an empty freqdist) and for bins < freqdist.B().          *)
(***************************************************************************)
ELEProbDist(freqdist, bins) ==
  [raises   |-> bins = 0 \/ bins < B(freqdist),
   freqdist |-> freqdist,
   bins     |-> bins]

\* estimator(label_freqdist): bins defaults to freqdist.B().
ELEProbDistNoBins(freqdist) == ELEProbDist(freqdist, B(freqdist))

\* prob(sample) = (c + 0.5) / (N + 0.5 * bins) = (2c + 1) / (2N + bins)
prob(pd, sample) ==
  Frac(2 * Count(pd.freqdist, sample) + 1, 2 * N(pd.freqdist) + pd.bins)

\* samples(): the keys of the freqdist.
samples(pd) == DOMAIN pd.freqdist

(***************************************************************************)
(* NaiveBayesClassifier.train                                              *)
(***************************************************************************)
\* A variant of CountExample whose line 213 assigns feature_values[fname] = {fval}
\* where the code adds fval to the set.
CountExampleOverwrite(st, ex) ==
  LET featureset == ex[1]
      label == ex[2]
      touched == {<<label, f>> : f \in DOMAIN featureset}
      ffd == st.feature_freqdist
  IN [label_freqdist |-> Inc(st.label_freqdist, label, 1),
      feature_freqdist |->
        [k \in DOMAIN ffd \cup touched |->
           LET old == IF k \in DOMAIN ffd THEN ffd[k] ELSE FreqDist
           IN IF k \in touched THEN Inc(old, featureset[k[2]], 1) ELSE old],
      feature_values |->
        [f \in DOMAIN st.feature_values \cup DOMAIN featureset |->
           IF f \in DOMAIN featureset THEN {featureset[f]} ELSE st.feature_values[f]],
      fnames |-> st.fnames \cup DOMAIN featureset]

\* One pass of the counting loop (lines 207-215) for one example.
CountExample(st, ex) ==
  LET featureset == ex[1]
      label == ex[2]
      touched == {<<label, f>> : f \in DOMAIN featureset}
      ffd == st.feature_freqdist
  IN [label_freqdist |-> Inc(st.label_freqdist, label, 1),
      feature_freqdist |->
        [k \in DOMAIN ffd \cup touched |->
           LET old == IF k \in DOMAIN ffd THEN ffd[k] ELSE FreqDist
           IN IF k \in touched THEN Inc(old, featureset[k[2]], 1) ELSE old],
      feature_values |->
        [f \in DOMAIN st.feature_values \cup DOMAIN featureset |->
           (IF f \in DOMAIN st.feature_values THEN st.feature_values[f] ELSE {})
           \cup (IF f \in DOMAIN featureset THEN {featureset[f]} ELSE {})],
      fnames |-> st.fnames \cup DOMAIN featureset]

RECURSIVE CountLoop(_, _)
CountLoop(st, examples) ==
  IF examples = <<>> THEN st
  ELSE CountLoop(CountExample(st, Head(examples)), Tail(examples))

\* Lines 200-203.
TrainLocals ==
  [label_freqdist |-> FreqDist,
   feature_freqdist |-> [k \in {} |-> FreqDist],
   feature_values |-> [f \in {} |-> {}],
   fnames |-> {}]

\* A variant of ImputeKeys for a plain dict, which creates nothing on a read.
ImputeKeysNoDefault(st) == DOMAIN st.feature_freqdist

\* feature_freqdist is a defaultdict: reading feature_freqdist[label, fname]
\* at line 225 creates the entry when it is missing.
ImputeKeys(st) == DOMAIN st.feature_freqdist
                    \cup ((DOMAIN st.label_freqdist) \X st.fnames)

\* A variant of ImputeLoop whose line 225 counts the distinct values, B(),
\* where the code takes the total, N().
ImputeLoopDistinct(st) ==
  LET ffd == st.feature_freqdist
      at(k) == IF k \in DOMAIN ffd THEN ffd[k] ELSE FreqDist
      looped == (DOMAIN st.label_freqdist) \X st.fnames
      missing(k) == st.label_freqdist[k[1]] - B(at(k))
  IN [st EXCEPT
        !.feature_freqdist =
          [k \in ImputeKeys(st) |->
             IF k \in looped /\ missing(k) > 0
             THEN Inc(at(k), None, missing(k)) ELSE at(k)],
        !.feature_values =
          [f \in DOMAIN st.feature_values |->
             st.feature_values[f] \cup
               IF \E l \in DOMAIN st.label_freqdist : missing(<<l, f>>) > 0
               THEN {None} ELSE {}]]

\* The imputation loop (lines 222-230).
ImputeLoop(st) ==
  LET ffd == st.feature_freqdist
      at(k) == IF k \in DOMAIN ffd THEN ffd[k] ELSE FreqDist
      looped == (DOMAIN st.label_freqdist) \X st.fnames
      missing(k) == st.label_freqdist[k[1]] - N(at(k))
  IN [st EXCEPT
        !.feature_freqdist =
          [k \in ImputeKeys(st) |->
             IF k \in looped /\ missing(k) > 0
             THEN Inc(at(k), None, missing(k)) ELSE at(k)],
        !.feature_values =
          [f \in DOMAIN st.feature_values |->
             st.feature_values[f] \cup
               IF \E l \in DOMAIN st.label_freqdist : missing(<<l, f>>) > 0
               THEN {None} ELSE {}]]

\* A variant of FeatureProbdist that sizes each distribution by the values
\* counted under its own key, not by the feature's values over all labels.
FeatureProbdistOwnBins(st) ==
  [k \in DOMAIN st.feature_freqdist |->
     ELEProbDist(st.feature_freqdist[k], B(st.feature_freqdist[k]))]

\* Lines 236-239.
FeatureProbdist(st) ==
  [k \in DOMAIN st.feature_freqdist |->
     ELEProbDist(st.feature_freqdist[k], Cardinality(st.feature_values[k[2]]))]

\* train up to the return: the locals and the two distributions.
train(labeled_featuresets) ==
  LET st == ImputeLoop(CountLoop(TrainLocals, labeled_featuresets))
      label_probdist == ELEProbDistNoBins(st.label_freqdist)
      feature_probdist == FeatureProbdist(st)
  IN [locals |-> st,
      raises |-> label_probdist.raises
                   \/ \E k \in DOMAIN feature_probdist : feature_probdist[k].raises,
      label_probdist |-> label_probdist,
      feature_probdist |-> feature_probdist]

(***************************************************************************)
(* The module globals is_frequent, spam_frequent and frequent_probdist     *)
(* (lines 43-46).  A global is undefined until it is assigned; is_frequent *)
(* and frequent_probdist are dicts, spam_frequent is a list.  ham_frequent *)
(* is assigned at line 300 and never read, and is left out.                *)
(***************************************************************************)
Undefined == [defined |-> FALSE, table |-> [x \in {} |-> FALSE]]

Defined(t) == [defined |-> TRUE, table |-> t]

UndefinedList == [defined |-> FALSE, list |-> <<>>]

DefinedList(l) == [defined |-> TRUE, list |-> l]

\* What Preprocessor.get_frequent may return at line 300: the names it flags
\* and the list spam_frequent.
OverrideNames == {"w"}

IsFrequentDicts ==
  {Defined(t) : t \in UNION {[S -> BOOLEAN] : S \in SUBSET OverrideNames}}

SpamFrequentLists == {DefinedList(<<>>), DefinedList(<<"w">>)}

(***************************************************************************)
(* count and normal_probability (lines 248-280)                            *)
(***************************************************************************)
\* is_frequent[fname] == True, where a NameError or a KeyError is caught
\* (lines 253-258 and 268-280) and the feature skipped.
IsFlagged(isf, fname) ==
  isf.defined /\ fname \in DOMAIN isf.table /\ isf.table[fname] = TRUE

\* count(featureset): cnt and count_fname.
count(isf, featureset) ==
  LET flagged == {f \in DOMAIN featureset : IsFlagged(isf, f)}
  IN [cnt |-> Cardinality(flagged), count_fname |-> [f \in flagged |-> 1]]

\* Lines 266-280 for one example: every flagged feature of the example gets
\* count_fname[fname] / (count_frequent + len(spam_frequent)) under its label;
\* with spam_frequent undefined the NameError is caught and nothing is written.
NormalExample(isf, sf, table, ex) ==
  LET featureset == ex[1]
      label == ex[2]
      c == count(isf, featureset)
      written == IF sf.defined
                 THEN {<<label, f>> : f \in DOMAIN c.count_fname} ELSE {}
  IN [k \in DOMAIN table \cup written |->
        IF k \in written
        THEN Frac(c.count_fname[k[2]], c.cnt + Len(sf.list))
        ELSE table[k]]

RECURSIVE NormalLoop(_, _, _, _)
NormalLoop(isf, sf, table, examples) ==
  IF examples = <<>> THEN table
  ELSE NormalLoop(isf, sf, NormalExample(isf, sf, table, Head(examples)),
                  Tail(examples))

\* normal_probability(train_set): the new value of frequent_probdist.
normal_probability(isf, sf, examples) ==
  Defined(NormalLoop(isf, sf, [k \in {} |-> Zero], examples))

(***************************************************************************)
(* NaiveBayesClassifier.prob_classify                                      *)
(***************************************************************************)
\* A variant of DiscardUnseen that keeps every feature name.
DiscardNothing(self, featureset) == featureset

\* Lines 102-109: the private copy, without the feature names that no label
\* has an entry for.
DiscardUnseen(self, featureset) ==
  LET seen == {f \in DOMAIN featureset :
                 \E label \in self._labels :
                    <<label, f>> \in DOMAIN self._feature_probdist}
  IN [f \in seen |-> featureset[f]]

\* A variant of CallerFeatureset without the copy of line 102: the deletions
\* are made in the caller's dict.
CallerSeesDeletions(self, featureset) == DiscardUnseen(self, featureset)

\* What the caller's dict holds after the call: line 102 rebinds the
\* parameter to a copy, so the deletions of line 109 do not reach it.
CallerFeatureset(self, featureset) == featureset

\* Lines 122-123, the try body up to the first exception:
\* is_frequent[fname] == True, then math.log(frequent_probdist[label,fname], 2).
\* math.log raises ValueError for an argument <= 0.
TryOverride(isf, fpd, label, fname) ==
  IF ~isf.defined THEN [raised |-> "NameError", frequent |-> FALSE, value |-> One]
  ELSE IF fname \notin DOMAIN isf.table
  THEN [raised |-> "KeyError", frequent |-> FALSE, value |-> One]
  ELSE IF ~isf.table[fname]
  THEN [raised |-> "none", frequent |-> FALSE, value |-> One]
  ELSE IF ~fpd.defined
  THEN [raised |-> "NameError", frequent |-> TRUE, value |-> One]
  ELSE IF <<label, fname>> \notin DOMAIN fpd.table
  THEN [raised |-> "KeyError", frequent |-> TRUE, value |-> One]
  ELSE IF fpd.table[<<label, fname>>][1] <= 0
  THEN [raised |-> "ValueError", frequent |-> TRUE, value |-> One]
  ELSE [raised |-> "none", frequent |-> TRUE, value |-> fpd.table[<<label, fname>>]]

\* A variant of ExceptAdds for a try body that had already added to
\* logprob[label] when it failed.
ExceptAddsTwice(own) == <<own, own>>

\* Line 129: what the bare except adds after a failed try body.
ExceptAdds(own) == <<own>>

\* Lines 120-134 for one label and one feature: which branch runs and the
\* values added to logprob[label], in order.
AddFeature(self, isf, fpd, label, fname, fval) ==
  IF <<label, fname>> \in DOMAIN self._feature_probdist
  THEN LET own == prob(self._feature_probdist[<<label, fname>>], fval)
           try == TryOverride(isf, fpd, label, fname)
       IN IF try.raised # "none"
          THEN [branch |-> "except", raised |-> try.raised, added |-> ExceptAdds(own)]
          ELSE IF try.frequent
          THEN [branch |-> "override", raised |-> "none", added |-> <<try.value>>]
          ELSE [branch |-> "own", raised |-> "none", added |-> <<own>>]
  ELSE [branch |-> "ninf", raised |-> "none", added |-> <<Zero>>]

\* DictionaryProbDist(logprob, normalize=True, log=True): divide by the sum;
\* a sum of -INF gives every label the same probability.
DictionaryProbDist(logprob) ==
  LET value_sum == FracSum(logprob, DOMAIN logprob)
  IN [l \in DOMAIN logprob |->
        IF value_sum = Zero THEN Frac(1, Cardinality(DOMAIN logprob))
        ELSE FracDiv(logprob[l], value_sum)]

prob_classify(self, isf, fpd, featureset_arg) ==
  LET featureset == DiscardUnseen(self, featureset_arg)
      labels == self._labels
      trace == [k \in labels \X (DOMAIN featureset) |->
                  AddFeature(self, isf, fpd, k[1], k[2], featureset[k[2]])]
      logprob == [l \in labels |->
                    FracMul(prob(self._label_probdist, l),
                            FracProd([f \in DOMAIN featureset |->
                                        SeqProd(trace[<<l, f>>].added)],
                                     DOMAIN featureset))]
  IN [featureset |-> featureset,
      trace |-> trace,
      logprob |-> logprob,
      raises |-> "none",
      ret |-> DictionaryProbDist(logprob)]

(***************************************************************************)
(* NaiveBayesClassifier.classify: prob_classify(featureset).max().         *)
(* DictionaryProbDist.max() is max((p, v) for (v, p) in items)[1]: Python  *)
(* compares the tuples (p, v) lexicographically and max keeps the first    *)
(* of the largest ones it meets in the iteration order of the dict.        *)
(***************************************************************************)
\* A variant of TupleLess that compares the probabilities alone
\* (max(..., key=probability)).
ProbLess(p1, v1, p2, v2) == FracLess(p1, p2)

\* (p1, v1) < (p2, v2)
TupleLess(p1, v1, p2, v2) ==
  FracLess(p1, p2) \/ (p1 = p2 /\ LabelRank[v1] < LabelRank[v2])

RECURSIVE MaxOver(_, _, _)
MaxOver(dist, items, best) ==
  IF items = <<>> THEN best
  ELSE LET v == Head(items)
       IN MaxOver(dist, Tail(items),
                  IF TupleLess(dist[best], best, dist[v], v) THEN v ELSE best)

\* items: the labels in the iteration order of the dict.
DistMax(dist, items) == MaxOver(dist, Tail(items), Head(items))

\* The orders in which a dict may list the keys S.
ItemOrders(S) ==
  {s \in [1..Cardinality(S) -> S] : \A i, j \in 1..Cardinality(S) : s[i] = s[j] => i = j}

classify(self, isf, fpd, featureset_arg) ==
  LET dist == prob_classify(self, isf, fpd, featureset_arg).ret
  IN {DistMax(dist, items) : items \in ItemOrders(DOMAIN dist)}

(***************************************************************************)
(* NaiveBayesClassifier.most_informative_features                          *)
(***************************************************************************)
\* Lines 177-183: features, maxprob and minprob after the loop.
FeaturePairs(self) ==
  UNION {{<<k[2], fval>> : fval \in samples(self._feature_probdist[k])} :
           k \in DOMAIN self._feature_probdist}

ProbsOf(self, feature) ==
  {prob(self._feature_probdist[k], feature[2]) :
     k \in {j \in DOMAIN self._feature_probdist :
              j[2] = feature[1] /\ feature[2] \in samples(self._feature_probdist[j])}}

MaxProb(self, feature) ==
  LET ps == ProbsOf(self, feature)
  IN CHOOSE p \in ps : \A q \in ps : FracLeq(q, p)

MinProb(self, feature) ==
  LET ps == ProbsOf(self, feature)
  IN CHOOSE p \in ps : \A q \in ps : FracLeq(p, q)

\* Lines 184-185: a pair whose minimum is 0 is discarded.
KeptFeatures(self) == {f \in FeaturePairs(self) : MinProb(self, f) # Zero}

\* A variant of SortKey with the quotient upside down.
SortKeyInverted(self, feature) == FracDiv(MaxProb(self, feature), MinProb(self, feature))

\* Line 191: the sort key.
SortKey(self, feature) == FracDiv(MinProb(self, feature), MaxProb(self, feature))

\* sorted(keyed, key=...): keyed is a set of pairs <<feature, key>>; the
\* result lists the features by ascending key, and features with equal keys
\* come in the iteration order of the set, which is any order.
RECURSIVE SortedLists(_)
SortedLists(keyed) ==
  IF keyed = {} THEN {<<>>}
  ELSE UNION {{<<x[1]>> \o rest : rest \in SortedLists(keyed \ {x})} :
                x \in {y \in keyed : \A z \in keyed : FracLeq(y[2], z[2])}}

\* features[:n]
Slice(list, n) == SubSeq(list, 1, IF n < Len(list) THEN n ELSE Len(list))

\* The lists that most_informative_features(n) may return.
most_informative_features(self, n) ==
  LET keyed == {<<f, SortKey(self, f)>> : f \in KeptFeatures(self)}
  IN {Slice(features, n) : features \in SortedLists(keyed)}

(***************************************************************************)
(* The state machine.  train_set is the training sequence the caller       *)
(* holds; label_freqdist, feature_freqdist, feature_values and fnames are  *)
(* the locals of train when it returns; classifier is the object train     *)
(* returns; call records the running call, its arguments and its result.   *)
(***************************************************************************)
NoClassifier ==
  [trained |-> FALSE,
   _label_probdist |-> ELEProbDist(FreqDist, 0),
   _feature_probdist |-> [k \in {} |-> ELEProbDist(FreqDist, 0)],
   _labels |-> {}]

NoCall == [op |-> "none"]

InitWith(examples) ==
  /\ train_set \in examples
  /\ label_freqdist = TrainLocals.label_freqdist
  /\ feature_freqdist = TrainLocals.feature_freqdist
  /\ feature_values = TrainLocals.feature_values
  /\ fnames = TrainLocals.fnames
  /\ classifier = NoClassifier
  /\ call = NoCall

Init ==
  /\ InitWith(TrainSets(MaxScoreExamples))
  /\ is_frequent = Undefined
  /\ spam_frequent = UndefinedList
  /\ frequent_probdist = Undefined

InitTrain ==
  /\ InitWith(TrainSets(MaxExamples))
  /\ is_frequent = Undefined
  /\ spam_frequent = UndefinedList
  /\ frequent_probdist = Undefined

\* classifier = NaiveBayesClassifier.train(train_set); __init__ (lines 84-86)
\* keeps the two distributions and the labels.
Train ==
  /\ ~classifier.trained
  /\ call = NoCall
  /\ LET t == train(train_set)
     IN /\ label_freqdist' = t.locals.label_freqdist
        /\ feature_freqdist' = t.locals.feature_freqdist
        /\ feature_values' = t.locals.feature_values
        /\ fnames' = t.locals.fnames
        /\ IF t.raises
           THEN /\ classifier' = classifier
                /\ call' = [op |-> "train", raises |-> "ValueError"]
           ELSE /\ classifier' = [trained |-> TRUE,
                                  _label_probdist |-> t.label_probdist,
                                  _feature_probdist |-> t.feature_probdist,
                                  _labels |-> samples(t.label_probdist)]
                /\ call' = [op |-> "train", raises |-> "none"]
  /\ UNCHANGED <<train_set, is_frequent, spam_frequent, frequent_probdist>>

\* Line 300: spam_frequent, ham_frequent, is_frequent =
\* Preprocessor.get_frequent(train_set, ...), run once by __main__.
GetFrequent ==
  /\ call = NoCall
  /\ ~is_frequent.defined /\ ~spam_frequent.defined
  /\ is_frequent' \in IsFrequentDicts
  /\ spam_frequent' \in SpamFrequentLists
  /\ UNCHANGED <<train_set, label_freqdist, feature_freqdist, feature_values,
                 fnames, classifier, frequent_probdist, call>>

\* normal_probability(labeled_featuresets), called with train_set at line
\* 305 or with any other list: frequent_probdist is assigned anew on every
\* call.
NormalProbability ==
  /\ call = NoCall
  /\ \E examples \in {train_set} \cup TrainSets(MaxNormalExamples) :
       frequent_probdist' = normal_probability(is_frequent, spam_frequent, examples)
  /\ UNCHANGED <<train_set, label_freqdist, feature_freqdist, feature_values,
                 fnames, classifier, is_frequent, spam_frequent, call>>

ProbClassify ==
  /\ classifier.trained
  /\ call = NoCall
  /\ \E featureset \in FeatureSets :
       LET r == prob_classify(classifier, is_frequent, frequent_probdist, featureset)
       IN call' = [op |-> "prob_classify",
                   arg |-> featureset,
                   featureset |-> CallerFeatureset(classifier, featureset),
                   copy |-> r.featureset,
                   trace |-> r.trace,
                   logprob |-> r.logprob,
                   raises |-> r.raises,
                   ret |-> r.ret]
  /\ UNCHANGED <<train_set, label_freqdist, feature_freqdist, feature_values,
                 fnames, classifier, is_frequent, spam_frequent, frequent_probdist>>

Classify ==
  /\ classifier.trained
  /\ call = NoCall
  /\ \E featureset \in FeatureSets :
       \E label \in classify(classifier, is_frequent, frequent_probdist, featureset) :
         call' = [op |-> "classify",
                  arg |-> featureset,
                  featureset |-> CallerFeatureset(classifier, featureset),
                  raises |-> "none",
                  ret |-> label]
  /\ UNCHANGED <<train_set, label_freqdist, feature_freqdist, feature_values,
                 fnames, classifier, is_frequent, spam_frequent, frequent_probdist>>

MostInformativeFeatures ==
  /\ classifier.trained
  /\ call = NoCall
  /\ \E n \in 0..MaxN :
       \E features \in most_informative_features(classifier, n) :
         call' = [op |-> "most_informative_features", n |-> n, ret |-> features]
  /\ UNCHANGED <<train_set, label_freqdist, feature_freqdist, feature_values,
                 fnames, classifier, is_frequent, spam_frequent, frequent_probdist>>

\* The call returns to its caller.
Return ==
  /\ call # NoCall
  /\ call' = NoCall
  /\ UNCHANGED <<train_set, label_freqdist, feature_freqdist, feature_values,
                 fnames, classifier, is_frequent, spam_frequent, frequent_probdist>>

Next ==
  Train \/ GetFrequent \/ NormalProbability \/ ProbClassify \/ Classify \/ Return

Spec == Init /\ [][Next]_vars

NextTrain == Train \/ MostInformativeFeatures \/ Return

SpecTrain == InitTrain /\ [][NextTrain]_vars

(***************************************************************************)
(* Properties.  What a property expects is written from the training       *)
(* sequence, the tables and the call's arguments, not from the operators   *)
(* that model the method under test.                                       *)
(***************************************************************************)
Indices == 1..Len(train_set)

LabelsSeen == {train_set[i][2] : i \in Indices}

FNamesSeen == UNION {DOMAIN train_set[i][1] : i \in Indices}

\* The examples with this label, and those of them that carry the feature.
WithLabel(label) == {i \in Indices : train_set[i][2] = label}

Carrying(label, fname) == {i \in WithLabel(label) : fname \in DOMAIN train_set[i][1]}

Shortfall(label, fname) ==
  Cardinality(WithLabel(label)) - Cardinality(Carrying(label, fname))

Permuted(p) == [i \in Indices |-> train_set[p[i]]]

\* The label has an entry for the feature name in the conditional table.
HasEntry(label, fname) == <<label, fname>> \in DOMAIN classifier._feature_probdist

\* The model's own probability of the value.
OwnProb(label, fname, fval) == prob(classifier._feature_probdist[<<label, fname>>], fval)

Scoring == call.op = "prob_classify"

\* An override of exactly 0 is registered for some pair.  normal_probability,
\* the only writer of frequent_probdist, writes 1 / (count + len(spam_frequent)),
\* so no reachable state has one and math.log at line 123 never raises.
ZeroOverride ==
  frequent_probdist.defined
    /\ \E k \in DOMAIN frequent_probdist.table : frequent_probdist.table[k] = Zero

OverridesPositive == ~ZeroOverride

\* The override lookup for (label, fname) fails: a table is undefined, the
\* name is missing from is_frequent, or the pair from frequent_probdist.
LookupFails(label, fname) ==
  \/ ~is_frequent.defined
  \/ fname \notin DOMAIN is_frequent.table
  \/ is_frequent.table[fname]
       /\ (\/ ~frequent_probdist.defined
           \/ <<label, fname>> \notin DOMAIN frequent_probdist.table)

\* C2: for every label and every input feature with an entry in the
\* conditional table, a failed override lookup adds the model's own
\* log-probability of the value to the label's score, exactly once, and
\* nothing is raised to the caller; a label all of whose lookups fail scores
\* its prior times its own probabilities.
C2_LookupFailureFallsBack ==
  Scoring =>
    /\ call.raises = "none"
    /\ \A label \in classifier._labels :
         /\ \A fname \in DOMAIN call.arg :
              (HasEntry(label, fname) /\ LookupFails(label, fname))
              => call.trace[<<label, fname>>].added
                   = <<OwnProb(label, fname, call.arg[fname])>>
         /\ (\A fname \in DOMAIN call.arg :
               HasEntry(label, fname) /\ LookupFails(label, fname))
            => call.logprob[label] =
                 FracMul(prob(classifier._label_probdist, label),
                         FracProd([f \in DOMAIN call.arg |->
                                     OwnProb(label, f, call.arg[f])],
                                  DOMAIN call.arg))

C2_Witness ==
  /\ Scoring
  /\ \E k \in DOMAIN call.trace : call.trace[k].raised = "NameError"
  /\ \E k \in DOMAIN call.trace : call.trace[k].raised = "KeyError"
  /\ Cardinality(classifier._labels) = 2

\* No label has an entry for the feature name.
Unseen(fname) == \A label \in classifier._labels : ~HasEntry(label, fname)

Without(featureset, fname) ==
  [f \in DOMAIN featureset \ {fname} |-> featureset[f]]

\* C3: a feature name that no label has an entry for has no effect on the
\* result of prob_classify, whatever the override tables say about it:
\* the result equals that of the input without the name.
C3_UnseenFeatureIgnored ==
  Scoring =>
    \A u \in DOMAIN call.arg :
      Unseen(u) =>
        call.ret = prob_classify(classifier, is_frequent, frequent_probdist,
                                 Without(call.arg, u)).ret

C3_Witness ==
  /\ Scoring
  /\ \E u \in DOMAIN call.arg :
       /\ Unseen(u)
       /\ is_frequent.defined /\ u \in DOMAIN is_frequent.table
       /\ is_frequent.table[u]
       /\ frequent_probdist.defined
       /\ \E label \in classifier._labels :
            <<label, u>> \in DOMAIN frequent_probdist.table
       /\ DOMAIN call.arg # {u}
  /\ Cardinality(classifier._labels) = 2
  /\ call.ret["ham"] # call.ret["spam"]

\* C4: train gives the same label counts, value counts (with the None
\* counts), sample spaces and distributions for every ordering of the
\* training sequence.
C4_PermutationInvariant ==
  call.op = "train" =>
    \A p \in Permutations(Indices) :
      LET t == train(Permuted(p))
      IN /\ t.locals.label_freqdist = label_freqdist
         /\ t.locals.feature_freqdist = feature_freqdist
         /\ t.locals.feature_values = feature_values
         /\ t.locals.fnames = fnames
         /\ classifier.trained =>
              /\ t.label_probdist = classifier._label_probdist
              /\ t.feature_probdist = classifier._feature_probdist

C4_Witness ==
  /\ call.op = "train"
  /\ classifier.trained
  /\ Len(train_set) = 3
  /\ train_set[1] # train_set[2] /\ train_set[2] # train_set[3]
  /\ train_set[1] # train_set[3]

\* C5: after the imputation loop, for every label and feature name seen, the
\* count of None under (label, feature name) is the number of examples of
\* the label less the number of them that carry the feature, the table's
\* total is the label's example count, and None is in the feature's sample
\* space exactly when some label has a positive shortfall.
C5_ImputedCounts ==
  call.op = "train" =>
    /\ \A label \in LabelsSeen : \A fname \in FNamesSeen :
         /\ <<label, fname>> \in DOMAIN feature_freqdist
         /\ Count(feature_freqdist[<<label, fname>>], None) = Shortfall(label, fname)
         /\ N(feature_freqdist[<<label, fname>>]) = Cardinality(WithLabel(label))
    /\ \A fname \in FNamesSeen :
         None \in feature_values[fname]
           <=> \E label \in LabelsSeen : Shortfall(label, fname) > 0

C5_Witness ==
  /\ call.op = "train"
  /\ \E label \in LabelsSeen : \E f, g \in FNamesSeen :
       /\ Shortfall(label, f) = 2
       /\ Shortfall(label, g) = 0
       /\ None \in feature_values[f]
       /\ None \notin feature_values[g]

\* C6: for every key of the conditional table of a trained model, the bins
\* given to the estimator are at least the distinct values counted under the
\* key, every smoothed probability is positive, and the probabilities of the
\* feature's sample space sum to exactly 1.
C6_SmoothedDistributions ==
  classifier.trained =>
    \A k \in DOMAIN classifier._feature_probdist :
      LET pd == classifier._feature_probdist[k]
          space == feature_values[k[2]]
      IN /\ pd.bins >= Cardinality(DOMAIN feature_freqdist[k])
         /\ pd.bins = Cardinality(space)
         /\ \A fval \in space \cup ValuesOf[k[2]] : prob(pd, fval)[1] > 0
         /\ FracSum([fval \in space |-> prob(pd, fval)], space) = One

C6_Witness ==
  /\ classifier.trained
  /\ \E k \in DOMAIN classifier._feature_probdist :
       /\ None \in feature_values[k[2]]
       /\ Cardinality(feature_values[k[2]]) = 3
       /\ Cardinality(DOMAIN feature_freqdist[k]) = 1

\* The probabilities that prob_classify gives for the call's argument.
ScoresOfArg ==
  prob_classify(classifier, is_frequent, frequent_probdist, call.arg).ret

\* C7: classify returns a label whose probability is at least that of every
\* other label, and among the labels of largest probability it returns the
\* one that one fixed order of the labels puts last, for every input and
\* every iteration order.
C7_ClassifyIsArgmax ==
  call.op = "classify" =>
    LET scores == ScoresOfArg
    IN \A label \in classifier._labels :
         /\ FracLeq(scores[label], scores[call.ret])
         /\ scores[label] = scores[call.ret]
              => LabelRank[label] <= LabelRank[call.ret]

C7_Witness ==
  /\ call.op = "classify"
  /\ classifier._labels = Labels
  /\ ScoresOfArg["ham"] = ScoresOfArg["spam"]
  /\ call.arg # <<>>

\* The labels whose distribution for the feature name has the value as a
\* sample, and the largest ratio of two of their probabilities.
LabelsWith(feature) ==
  {label \in classifier._labels :
     /\ HasEntry(label, feature[1])
     /\ feature[2] \in DOMAIN classifier._feature_probdist[<<label, feature[1]>>].freqdist}

Ratio(feature) ==
  LET hi == CHOOSE l \in LabelsWith(feature) :
              \A m \in LabelsWith(feature) :
                FracLeq(OwnProb(m, feature[1], feature[2]), OwnProb(l, feature[1], feature[2]))
      lo == CHOOSE l \in LabelsWith(feature) :
              \A m \in LabelsWith(feature) :
                FracLeq(OwnProb(l, feature[1], feature[2]), OwnProb(m, feature[1], feature[2]))
  IN FracDiv(OwnProb(hi, feature[1], feature[2]), OwnProb(lo, feature[1], feature[2]))

AllPairs ==
  {feature \in FNamesSeen \X ({None} \cup UNION {ValuesOf[f] : f \in FNames}) :
     LabelsWith(feature) # {}}

Ranking == call.op = "most_informative_features"

\* C8: most_informative_features(n) returns at most n distinct pairs of the
\* table, none with a smallest probability of 0, in non-increasing order of
\* the ratio of the largest to the smallest probability, and no pair left
\* out has a larger ratio than a pair returned.
C8_MostInformative ==
  Ranking =>
    LET ratios == {<<feature, Ratio(feature)>> : feature \in AllPairs}
        ratio(feature) == (CHOOSE x \in ratios : x[1] = feature)[2]
        returned == {call.ret[j] : j \in 1..Len(call.ret)}
        all == {x[1] : x \in ratios}
    IN /\ Len(call.ret) <= call.n
       /\ Cardinality(returned) = Len(call.ret)
       /\ returned \subseteq all
       /\ \A feature \in returned : \A label \in LabelsWith(feature) :
            OwnProb(label, feature[1], feature[2]) # Zero
       /\ \A i, j \in 1..Len(call.ret) :
            i < j => FracLeq(ratio(call.ret[j]), ratio(call.ret[i]))
       /\ \A out \in all \ returned : \A feature \in returned :
            FracLeq(ratio(out), ratio(feature))

C8_Witness ==
  /\ Ranking
  /\ Len(call.ret) = 2
  /\ FracLess(Ratio(call.ret[2]), Ratio(call.ret[1]))
  /\ AllPairs \ {call.ret[1], call.ret[2]} # {}

\* C9: a step that runs prob_classify or classify leaves the label prior, the
\* conditional table, the label list and the two override tables as they
\* were, and the caller's feature set equal to the argument given.
C9_InferenceIsReadOnly ==
  [][call'.op \in {"prob_classify", "classify"} =>
       /\ classifier' = classifier
       /\ is_frequent' = is_frequent
       /\ spam_frequent' = spam_frequent
       /\ frequent_probdist' = frequent_probdist
       /\ call'.featureset = call'.arg]_vars

C9_Witness ==
  /\ Scoring
  /\ call.copy # call.arg
  /\ call.copy # <<>>
  /\ is_frequent.defined /\ frequent_probdist.defined

\* C10: a model that train returns has a conditional table whose keys are
\* exactly the labels seen times the feature names seen, and prob_classify
\* never takes its negative-infinity branch on it.
C10_FullKeySet ==
  classifier.trained =>
    /\ DOMAIN classifier._feature_probdist = LabelsSeen \X FNamesSeen
    /\ Scoring => \A k \in DOMAIN call.trace : call.trace[k].branch # "ninf"

C10_Witness ==
  /\ Scoring
  /\ \E label \in LabelsSeen : \E fname \in FNamesSeen :
       /\ Carrying(label, fname) = {}
       /\ fname \in DOMAIN call.arg
       /\ classifier._feature_probdist[<<label, fname>>].freqdist
            = (None :> Cardinality(WithLabel(label)))

====
